---------------------------- MODULE Spec2Model ----------------------------
(***************************************************************************)
(* Model of the aiida-gromacs output parser (GeneralParser.parse and       *)
(* GeneralParser.format_link_label) and of the editconf calculation        *)
(* adapter (EditconfCalculation.prepare_for_submission).                    *)
(*                                                                         *)
(* A Python str is a sequence of one-character strings, a bytes object a   *)
(* sequence of integers in 0..255.                                         *)
(***************************************************************************)
EXTENDS Integers, Sequences, FiniteSets, TLC

VARIABLES
    \* ---- format_link_label called on its own (LabelSpec)
    filename,         \* the argument of format_link_label
    link_label,       \* what the call returned or raised
    relabel,          \* format_link_label applied to the returned label
    lpc,              \* "start" | "formatted" | "reformatted"
    \* ---- GeneralParser.parse (Spec, CopySpec, AnyNameSpec)
    output_filename,  \* node option 'output_filename'
    output_files,     \* node input 'output_files': <<>> when absent, <<list>> when given
    files_retrieved,  \* self.retrieved.list_object_names()
    content,          \* bytes of each retrieved file
    files_expected,   \* local list built at lines 51-54
    outputs,          \* self.outputs: link label -> registered node
    written,          \* files under output_dir: name -> bytes
    index,            \* position of the running for loop
    handle_pos,       \* read position of the open source handle
    reads,            \* handle.read calls made on the open source handle
    pc,               \* position in parse
    result,           \* what parse returned or raised
    \* ---- EditconfCalculation.prepare_for_submission (EditconfSpec)
    inputs,           \* the process inputs and options
    calcinfo,         \* the returned CalcInfo
    epc               \* "start" | "prepared"

labelVars == <<filename, link_label, relabel, lpc>>
parseVars == <<output_filename, output_files, files_retrieved, content,
               files_expected, outputs, written, index, handle_pos, reads, pc,
               result>>
editconfVars == <<inputs, calcinfo, epc>>
vars == <<labelVars, parseVars, editconfVars>>

-----------------------------------------------------------------------------
(* Characters and strings *)

Digits == {"0", "1", "2", "3", "4", "5", "6", "7", "8", "9"}

Letters ==
    {"a", "b", "c", "d", "e", "f", "g", "h", "i", "j", "k", "l", "m",
     "n", "o", "p", "q", "r", "s", "t", "u", "v", "w", "x", "y", "z",
     "A", "B", "C", "D", "E", "F", "G", "H", "I", "J", "K", "L", "M",
     "N", "O", "P", "Q", "R", "S", "T", "U", "V", "W", "X", "Y", "Z"}

\* the character class 0-9a-zA-Z_ of the first pattern
WordChars == Digits \cup Letters \cup {"_"}

Range(s) == {s[i] : i \in DOMAIN s}

Max(S) == CHOOSE x \in S : \A y \in S : y <= x

Min(a, b) == IF a <= b THEN a ELSE b

\* all sequences over S of length at most n
SeqsUpTo(S, n) == UNION {[1..k -> S] : k \in 0..n}

\* str.isdigit() on one character
isdigit(c) == c \in Digits

\* filename.split('/')[-1]: what follows the last '/'
LastSegment(s) ==
    LET slashes == {i \in DOMAIN s : s[i] = "/"}
    IN  IF slashes = {} THEN s ELSE SubSeq(s, Max(slashes) + 1, Len(s))

\* whether character c belongs to the class cls, or to its complement [^cls]
InClass(c, cls, negated) == (c \in cls) # negated

\* length of the run of class characters of s that starts at position i
RECURSIVE RunLength(_, _, _, _)
RunLength(s, i, cls, negated) ==
    IF i > Len(s) \/ ~InClass(s[i], cls, negated)
    THEN 0
    ELSE 1 + RunLength(s, i + 1, cls, negated)

\* re.sub(pattern, '_', s) for a pattern matching a run of at least minRun
\* characters of a class: leftmost, greedy, non-overlapping
RECURSIVE ReSubFrom(_, _, _, _, _)
ReSubFrom(s, i, cls, negated, minRun) ==
    IF i > Len(s) THEN <<>>
    ELSE LET run == RunLength(s, i, cls, negated)
         IN  IF run >= minRun
             THEN <<"_">> \o ReSubFrom(s, i + run, cls, negated, minRun)
             ELSE <<s[i]>> \o ReSubFrom(s, i + 1, cls, negated, minRun)

\* re.sub('[^0-9a-zA-Z_]+', '_', s)
SubNonWord(s) == ReSubFrom(s, 1, WordChars, TRUE, 1)

\* re.sub('_[_]+', '_', s)
SubUnderscores(s) == ReSubFrom(s, 1, {"_"}, FALSE, 2)

Prefix == <<"o", "u", "t", "p", "u", "t", "_", "f", "i", "l", "e", "s", "_">>

Returned(v) == [raised |-> "", value |-> v]
Raised(e) == [raised |-> e, value |-> <<>>]

\* the prefix rule without its underscore test
NeedsPrefixDigitOnly(segment) == isdigit(segment[1])

\* the prefix rule of format_link_label
NeedsPrefix(segment) == isdigit(segment[1]) \/ segment[1] = "_"

\* format_link_label with a guard on the empty segment: no IndexError
format_link_label_guarded(name) ==
    LET segment == LastSegment(name)
        prefixed == IF segment # <<>> /\ NeedsPrefix(segment)
                    THEN Prefix \o segment
                    ELSE segment
    IN  Returned(SubUnderscores(SubNonWord(prefixed)))

\* GeneralParser.format_link_label: the label, or the IndexError of filename[0]
format_link_label(name) ==
    LET segment == LastSegment(name)
    IN  IF segment = <<>>
        THEN Raised("IndexError")
        ELSE LET prefixed == IF NeedsPrefix(segment)
                             THEN Prefix \o segment
                             ELSE segment
                 alphanumeric == SubNonWord(prefixed)
             IN  Returned(SubUnderscores(alphanumeric))


-----------------------------------------------------------------------------
(* Values shared by the specifications *)

EmptyMap == [k \in {} |-> k]

\* a dict assignment d[k] = v
Put(map, k, v) ==
    [x \in DOMAIN map \cup {k} |-> IF x = k THEN v ELSE map[x]]

NotCalled == Raised("not called")

LabelIdle ==
    /\ filename = <<>>
    /\ link_label = NotCalled
    /\ relabel = NotCalled
    /\ lpc = "idle"

ParseIdle ==
    /\ output_filename = <<>>
    /\ output_files = <<>>
    /\ files_retrieved = <<>>
    /\ content = EmptyMap
    /\ files_expected = <<>>
    /\ outputs = EmptyMap
    /\ written = EmptyMap
    /\ index = 0
    /\ handle_pos = 0
    /\ reads = 0
    /\ pc = "idle"
    /\ result = ""

EditconfIdle ==
    /\ inputs = <<>>
    /\ calcinfo = <<>>
    /\ epc = "idle"

-----------------------------------------------------------------------------
(* format_link_label on its own *)

\* longest generated filename
MaxLen == 4

\* one letter, one digit, the underscore, one other character, the separator
LabelAlphabet == {"a", "7", "_", ".", "/"}

\* "3-run.log", "a//b.gro", "__weird__name.top", "1AKI_ions.tpr"
ExampleFilenames ==
    { <<"3", "-", "r", "u", "n", ".", "l", "o", "g">>,
      <<"a", "/", "/", "b", ".", "g", "r", "o">>,
      <<"_", "_", "w", "e", "i", "r", "d", "_", "_", "n", "a", "m", "e",
        ".", "t", "o", "p">>,
      <<"1", "A", "K", "I", "_", "i", "o", "n", "s", ".", "t", "p", "r">> }

Filenames == SeqsUpTo(LabelAlphabet, MaxLen) \cup ExampleFilenames

InitLabel ==
    /\ filename \in Filenames
    /\ link_label = NotCalled
    /\ relabel = NotCalled
    /\ lpc = "start"
    /\ ParseIdle
    /\ EditconfIdle

\* link_label = format_link_label(filename)
FormatLabel ==
    /\ lpc = "start"
    /\ link_label' = format_link_label(filename)
    /\ lpc' = "formatted"
    /\ UNCHANGED <<filename, relabel, parseVars, editconfVars>>

\* format_link_label(link_label), for a call that returned
FormatAgain ==
    /\ lpc = "formatted"
    /\ link_label.raised = ""
    /\ relabel' = format_link_label(link_label.value)
    /\ lpc' = "reformatted"
    /\ UNCHANGED <<filename, link_label, parseVars, editconfVars>>

NextLabel == FormatLabel \/ FormatAgain

LabelSpec == InitLabel /\ [][NextLabel]_vars

-----------------------------------------------------------------------------
(* GeneralParser.parse *)

\* handle.read(1024)
ChunkSize == 1024

\* the fixed link label of the standard-output node
LogLabel == <<"l", "o", "g">>

\* SinglefileData(file=handle[, filename=thing]) built from retrieved file
\* `source`: `named` is <<>> without the filename argument, <<thing>> with it
SinglefileData(source, named) ==
    [source |-> source, filename |-> named, content |-> content[source]]

\* handle.read(n) at read position pos of the bytes data
Read(data, pos, n) == SubSeq(data, pos + 1, Min(pos + n, Len(data)))

\* the existence check stopping after the first expected file
MissingFirstOnly(expected, retrieved) ==
    {i \in DOMAIN expected : i = 1 /\ expected[i] \notin Range(retrieved)}

\* the positions of files_expected whose file is not in files_retrieved
MissingExpected(expected, retrieved) ==
    {i \in DOMAIN expected : expected[i] \notin Range(retrieved)}

\* open(os.path.join(output_dir, thing), 'wb') fails on a path that names a
\* directory: thing empty or ending in '/'
IsDirectoryPath(thing) == LastSegment(thing) = <<>>

\* a chunk shorter than the chunk size taken for the end of the file
ShortChunk(chunk) == Len(chunk) < ChunkSize

\* line 101, `if not chunk`: the read returned no bytes
EndOfFile(chunk) == chunk = <<>>

\* where parse goes once the loop over files_expected is at position i
AfterExpected(i) == IF i <= Len(files_expected) THEN "expected" ELSE "copy"

\* lines 50-54: list the retrieved names, build files_expected
ReadInputs ==
    /\ pc = "start"
    /\ files_expected' = IF output_files = <<>> THEN <<>> ELSE output_files[1]
    /\ pc' = "check"
    /\ UNCHANGED <<output_filename, output_files, files_retrieved, content,
                   outputs, written, index, handle_pos, reads, result>>
    /\ UNCHANGED <<labelVars, editconfVars>>

\* the existence check placed after the registration of 'log'
CheckAfterRegisterLog ==
    /\ pc = "check"
    /\ IF MissingExpected(files_expected, files_retrieved) # {}
       THEN /\ result' = "ERROR_UNTRACKED_OUTPUT_FILES"
            /\ pc' = "done"
            /\ outputs' = IF output_filename \in Range(files_retrieved)
                          THEN Put(outputs, LogLabel,
                                   SinglefileData(output_filename, <<>>))
                          ELSE outputs
       ELSE /\ result' = result
            /\ pc' = "log"
            /\ outputs' = outputs
    /\ UNCHANGED <<output_filename, output_files, files_retrieved, content,
                   files_expected, written, index, handle_pos, reads>>
    /\ UNCHANGED <<labelVars, editconfVars>>

\* lines 63-67: the existence check of every expected file
CheckExpected ==
    /\ pc = "check"
    /\ IF MissingExpected(files_expected, files_retrieved) # {}
       THEN /\ result' = "ERROR_UNTRACKED_OUTPUT_FILES"
            /\ pc' = "done"
       ELSE /\ result' = result
            /\ pc' = "log"
    /\ UNCHANGED <<output_filename, output_files, files_retrieved, content,
                   files_expected, outputs, written, index, handle_pos, reads>>
    /\ UNCHANGED <<labelVars, editconfVars>>

\* lines 75-84: open the standard-output file and register it as 'log'
RegisterLog ==
    /\ pc = "log"
    /\ IF output_filename \notin Range(files_retrieved)
       THEN /\ result' = "FileNotFoundError"
            /\ pc' = "done"
            /\ UNCHANGED <<outputs, index>>
       ELSE /\ outputs' = Put(outputs, LogLabel,
                              SinglefileData(output_filename, <<>>))
            /\ index' = 1
            /\ pc' = AfterExpected(1)
            /\ result' = result
    /\ UNCHANGED <<output_filename, output_files, files_retrieved, content,
                   files_expected, written, handle_pos, reads>>
    /\ UNCHANGED <<labelVars, editconfVars>>

\* lines 86-90: one iteration of the loop over files_expected
RegisterExpected ==
    /\ pc = "expected"
    /\ LET thing == files_expected[index]
           label == format_link_label(thing)
       IN  IF label.raised # ""
           THEN /\ result' = label.raised
                /\ pc' = "done"
                /\ UNCHANGED <<outputs, index>>
           ELSE /\ outputs' = Put(outputs, label.value,
                                  SinglefileData(thing, <<thing>>))
                /\ index' = IF index < Len(files_expected) THEN index + 1 ELSE 1
                /\ pc' = AfterExpected(index + 1)
                /\ result' = result
    /\ UNCHANGED <<output_filename, output_files, files_retrieved, content,
                   files_expected, written, handle_pos, reads>>
    /\ UNCHANGED <<labelVars, editconfVars>>

\* lines 92-97: next retrieved file, open the source and the destination
OpenCopy ==
    /\ pc = "copy"
    /\ index <= Len(files_retrieved)
    /\ LET thing == files_retrieved[index]
       IN  IF IsDirectoryPath(thing)
           THEN /\ result' = "IsADirectoryError"
                /\ pc' = "done"
                /\ UNCHANGED <<written, handle_pos, reads>>
           ELSE /\ written' = Put(written, thing, <<>>)
                /\ handle_pos' = 0
                /\ reads' = 0
                /\ pc' = "chunk"
                /\ result' = result
    /\ UNCHANGED <<output_filename, output_files, files_retrieved, content,
                   files_expected, outputs, index>>
    /\ UNCHANGED <<labelVars, editconfVars>>

\* lines 98-105: one iteration of the chunk loop
CopyChunk ==
    /\ pc = "chunk"
    /\ reads' = reads + 1
    /\ LET thing == files_retrieved[index]
           chunk == Read(content[thing], handle_pos, ChunkSize)
       IN  IF EndOfFile(chunk)
           THEN /\ index' = index + 1
                /\ pc' = "copy"
                /\ UNCHANGED <<written, handle_pos>>
           ELSE /\ written' = [written EXCEPT ![thing] = @ \o chunk]
                /\ handle_pos' = handle_pos + Len(chunk)
                /\ UNCHANGED <<index, pc>>
    /\ UNCHANGED <<output_filename, output_files, files_retrieved, content,
                   files_expected, outputs, result>>
    /\ UNCHANGED <<labelVars, editconfVars>>

\* line 133
Return ==
    /\ pc = "copy"
    /\ index > Len(files_retrieved)
    /\ result' = "ExitCode0"
    /\ pc' = "done"
    /\ UNCHANGED <<output_filename, output_files, files_retrieved, content,
                   files_expected, outputs, written, index, handle_pos, reads>>
    /\ UNCHANGED <<labelVars, editconfVars>>

Next ==
    \/ ReadInputs
    \/ CheckExpected
    \/ RegisterLog
    \/ RegisterExpected
    \/ OpenCopy
    \/ CopyChunk
    \/ Return

-----------------------------------------------------------------------------
(* The inputs of parse *)

\* most files the retrieved folder lists
MaxRetrieved == 3

\* most entries of the output_files input
MaxExpected == 2

\* longest copied file, in chunks
MaxChunks == 2

AiidaOut == <<"a", "i", "i", "d", "a", ".", "o", "u", "t">>
LogFile == <<"l", "o", "g">>
IonsTpr == <<"1", "A", "K", "I", "_", "i", "o", "n", "s", ".", "t", "p", "r">>
ADotB == <<"a", ".", "b">>
ADashB == <<"a", "-", "b">>
EmptyName == <<>>
DirName == <<"d", "/">>

\* object names a retrieved folder can list: non-empty, without '/'
ValidNames == {AiidaOut, LogFile, IonsTpr, ADotB, ADashB}

\* a listing that is not assumed to hold object names only
AnyNames == {AiidaOut, LogFile, ADotB, EmptyName, DirName}

CopyNames == {AiidaOut, IonsTpr}

\* a file of n bytes; the period 251 does not divide the chunk size
Bytes(n) == [i \in 1..n |-> i % 251]

\* file lengths around the chunk boundaries
CopyLengths ==
    {n \in UNION {{k * ChunkSize - 1, k * ChunkSize, k * ChunkSize + 1} :
                  k \in 0..MaxChunks} : n >= 0 /\ n <= MaxChunks * ChunkSize}

Distinct(s) == \A i, j \in DOMAIN s : s[i] = s[j] => i = j

InitParse(names, outnames, maxRetrieved, maxExpected, lengths) ==
    /\ output_filename \in outnames
    /\ output_files \in {<<>>} \cup {<<l>> : l \in SeqsUpTo(names, maxExpected)}
    /\ files_retrieved \in {l \in SeqsUpTo(names, maxRetrieved) : Distinct(l)}
    /\ content \in [Range(files_retrieved) -> {Bytes(n) : n \in lengths}]
    /\ files_expected = <<>>
    /\ outputs = EmptyMap
    /\ written = EmptyMap
    /\ index = 0
    /\ handle_pos = 0
    /\ reads = 0
    /\ pc = "start"
    /\ result = ""
    /\ LabelIdle
    /\ EditconfIdle

Init == InitParse(ValidNames, ValidNames, MaxRetrieved, MaxExpected, {2})

Spec == Init /\ [][Next]_vars

InitCopy ==
    InitParse(CopyNames, {AiidaOut}, Cardinality(CopyNames), 1, CopyLengths)

CopySpec == InitCopy /\ [][Next]_vars

InitAnyName ==
    InitParse(AnyNames, {AiidaOut}, MaxRetrieved, MaxExpected, {2})

AnyNameSpec == InitAnyName /\ [][Next]_vars

-----------------------------------------------------------------------------
(* EditconfCalculation.prepare_for_submission *)

\* self.inputs.parameters.cmdline_params(grofile=...): the builder's call
cmdline_params(grofile) == <<"cmdline_params", grofile>>

\* the CodeInfo of lines 51-56
CodeInfo(in) ==
    [cmdline_params |-> cmdline_params(in.grofile.filename),
     code_uuid |-> in.code_uuid,
     stdout_name |-> in.output_filename,
     withmpi |-> in.withmpi]

\* a retrieve list without the parameter-specified output file
RetrieveStdoutOnly(in) == <<in.output_filename>>

\* calcinfo.retrieve_list, lines 64-65
RetrieveList(in) == <<in.output_filename, in.parameters_o>>

\* calcinfo.local_copy_list, lines 61-63
LocalCopyList(in) ==
    << <<in.grofile.uuid, in.grofile.filename, in.grofile.filename>> >>

InitEditconf ==
    /\ inputs \in [output_filename : {"aiida.out", "editconf.out", "conf.gro"},
                   grofile : [uuid : {"u1", "u2"},
                              filename : {"conf.gro", "1AKI.gro", "aiida.out"}],
                   parameters_o : {"newbox.gro", "conf.gro", "aiida.out"},
                   code_uuid : {"c1"},
                   withmpi : BOOLEAN]
    /\ calcinfo = <<>>
    /\ epc = "start"
    /\ LabelIdle
    /\ ParseIdle

\* lines 51-67
prepare_for_submission ==
    /\ epc = "start"
    /\ calcinfo' = [codes_info |-> <<CodeInfo(inputs)>>,
                    local_copy_list |-> LocalCopyList(inputs),
                    retrieve_list |-> RetrieveList(inputs)]
    /\ epc' = "prepared"
    /\ UNCHANGED <<inputs, labelVars, parseVars>>

NextEditconf == prepare_for_submission

EditconfSpec == InitEditconf /\ [][NextEditconf]_vars

-----------------------------------------------------------------------------
(* Properties of format_link_label, under LabelSpec *)

NoDoubleUnderscore(l) ==
    \A i \in 1..(Len(l) - 1) : ~(l[i] = "_" /\ l[i + 1] = "_")

\* a valid link label: non-empty, word characters only, no two consecutive
\* underscores, first character a letter
ValidLabel(l) ==
    /\ l # <<>>
    /\ \A i \in DOMAIN l : l[i] \in WordChars
    /\ NoDoubleUnderscore(l)
    /\ l[1] \in Letters

\* C1: every label format_link_label returns is a valid link label: non-empty,
\* made of [A-Za-z0-9_] only, without consecutive underscores, starting with
\* a letter.
C1_ReturnedLabelIsValid ==
    (lpc # "start" /\ link_label.raised = "") => ValidLabel(link_label.value)

\* C2: format_link_label is idempotent: applied to a label it returned, it
\* returns that label again.
C2_Idempotent ==
    lpc = "reformatted" => relabel = link_label

WeirdName ==
    <<"_", "_", "w", "e", "i", "r", "d", "_", "_", "n", "a", "m", "e",
      ".", "t", "o", "p">>

WeirdNameTop ==
    <<"w", "e", "i", "r", "d", "_", "n", "a", "m", "e", "_", "t", "o", "p">>

\* C7 as stated: format_link_label('__weird__name.top') is 'weird_name_top'.
C7_SpecExample ==
    (lpc # "start" /\ filename = WeirdName)
        => link_label = Returned(WeirdNameTop)

\* C7 amended: format_link_label('__weird__name.top') is
\* 'output_files_weird_name_top': the prefix is prepended and kept, and the
\* underscores that follow it are collapsed into its last one.
C7_PrefixedExample ==
    (lpc # "start" /\ filename = WeirdName)
        => link_label = Returned(Prefix \o WeirdNameTop)

C7_Witness == lpc = "formatted" /\ filename = WeirdName

-----------------------------------------------------------------------------
(* Properties of parse *)

\* the expectation list as supplied: empty when the input is absent
ExpectedInput == IF output_files = <<>> THEN <<>> ELSE output_files[1]

Retrieved == Range(files_retrieved)

Untracked == result = "ERROR_UNTRACKED_OUTPUT_FILES"

Succeeded == result = "ExitCode0"

\* C3: parse ends with ERROR_UNTRACKED_OUTPUT_FILES exactly when some filename
\* of the expectation list is not among the retrieved files.
C3_UntrackedIffMissing ==
    pc = "done" =>
        (Untracked <=> \E f \in Range(ExpectedInput) : f \notin Retrieved)

C3_Witness ==
    /\ pc = "done"
    /\ Untracked
    /\ Len(ExpectedInput) = 2
    /\ ExpectedInput[1] \in Retrieved
    /\ ExpectedInput[2] \notin Retrieved

C6_CopyIsFaithful ==
    /\ pc = "chunk" =>
        LET data == content[files_retrieved[index]]
        IN  /\ reads <= Len(data) \div ChunkSize + 1
            /\ handle_pos = Min(reads * ChunkSize, Len(data))
            /\ written[files_retrieved[index]] = SubSeq(data, 1, handle_pos)
    /\ pc = "chunk" => ENABLED CopyChunk
    /\ pc = "copy" => ENABLED (OpenCopy \/ Return)
    /\ Succeeded =>
        \A f \in Retrieved :
            f \in DOMAIN written /\ written[f] = content[f]

C6_Witness ==
    /\ Succeeded
    /\ \E f, g \in Retrieved :
        /\ Len(content[f]) = MaxChunks * ChunkSize
        /\ Len(content[g]) = 0
        /\ written[f] = content[f]
        /\ written[g] = <<>>

\* C9: when parse ends with ERROR_UNTRACKED_OUTPUT_FILES, no node has been
\* registered and no file written.
C9_UntrackedHasNoEffect ==
    Untracked => (outputs = EmptyMap /\ written = EmptyMap)

C9_Witness ==
    /\ Untracked
    /\ output_filename \in Retrieved
    /\ \E f \in Range(ExpectedInput) : f \in Retrieved

\* the empty filename, or a filename ending in '/'
EndsInSeparator(f) == f = <<>> \/ f[Len(f)] = "/"

-----------------------------------------------------------------------------
(* Properties of prepare_for_submission, under EditconfSpec *)

\* C8: the returned CalcInfo retrieves exactly the standard-output file, which
\* is the code's stdout name, followed by parameters['o'], and copies exactly
\* the input structure file under its own filename.
C8_RetrieveAndCopyLists ==
    epc = "prepared" =>
        /\ Len(calcinfo.retrieve_list) = 2
        /\ calcinfo.retrieve_list[1] = inputs.output_filename
        /\ calcinfo.retrieve_list[2] = inputs.parameters_o
        /\ Len(calcinfo.codes_info) = 1
        /\ calcinfo.codes_info[1].stdout_name = calcinfo.retrieve_list[1]
        /\ Len(calcinfo.local_copy_list) = 1
        /\ calcinfo.local_copy_list[1] =
               <<inputs.grofile.uuid, inputs.grofile.filename,
                 inputs.grofile.filename>>

C8_Witness ==
    /\ epc = "prepared"
    /\ inputs.output_filename = "aiida.out"
    /\ inputs.parameters_o = "newbox.gro"
    /\ calcinfo.retrieve_list = <<"aiida.out", "newbox.gro">>
=============================================================================
